---------------------------- MODULE Spec2Model ----------------------------
(***************************************************************************)
(* A model of the waves-xyl particle visualiser:                           *)
(*   - generateShapePositions (src/services/audioService.ts, the shape     *)
(*     generator),                                                         *)
(*   - AudioService.getFrequencyData and the audio loop of App.tsx,        *)
(*   - the morph / audio-level frame callback of ParticleSystem.tsx.       *)
(*                                                                         *)
(* Numbers.  JavaScript numbers are modelled in fixed point: an integer n  *)
(* stands for n / Scale.  Every product and quotient is rounded to the     *)
(* nearest representable value, as the floating-point operations of the    *)
(* code are.  NaN is a value of its own.  Math.random() is an input: a     *)
(* call returns a member of RandSet (in [0,1)).                            *)
(***************************************************************************)
EXTENDS Integers, Sequences, FiniteSets, TLC

VARIABLES
    (* generateShapePositions, seen as a function call *)
    gArgs,          \* [type, count, radius, draw]: the arguments and the random stream
    gOut,           \* the returned Float32Array, <<>> before the call returns
    (* AudioService.getFrequencyData, seen as a function call *)
    fData,          \* the analyser's byte frequency data (dataArray)
    fOut,           \* the returned {bass, mid, treble}, Silent before the call
    (* AudioService + App.tsx audio state *)
    analyser,       \* AudioService.analyser / dataArray are set (init has run)
    audioElement,   \* AudioService.audioElement: null, loading, playing, paused, failed
    isPlaying,      \* App state isPlaying
    isMusicLoaded,  \* App state isMusicLoaded
    audioData,      \* App state audioData = [bass, mid, treble]
    initPending,    \* handleFileUpload awaits audioService.init(file)
    contextState,   \* AudioService.audioContext: null, or its state running / suspended
    called,         \* the AudioService methods called directly so far (history)
    raised,         \* a direct AudioService call has thrown (history)
    audioFrames,    \* number of analyze() calls so far (history)
    (* ParticleSystem *)
    count,          \* prop count
    currentShape,   \* prop currentShape
    currentPositions, \* state currentPositions = the geometry's position array
    targetPositions,  \* state targetPositions
    smoothedBass,   \* smoothedBassRef.current
    uAudioLevel,    \* uniform uAudioLevel
    popBass,        \* the last frame's popBass (history)
    frames,         \* number of useFrame callbacks run (history)
    events,         \* the ParticleSystem operations so far, oldest first (history)
    uHandFactor,    \* uniform uHandFactor
    (* VisionController + App.tsx handFactor *)
    status,         \* state status: init, detected, waiting, error
    handFactor,     \* App state handFactor, set by onHandUpdate
    scriptLoaded,   \* window.Hands is defined
    mediaDevices,   \* navigator.mediaDevices.getUserMedia exists
    handsRef,       \* handsRef.current is set
    initTimer,      \* ms left of the pending setTimeout(initHands, 500), NoTimer if none
    camera,         \* idle, requesting, streaming (srcObject set), playing, failed
    scheduled,      \* pending requestAnimationFrame(processVideo) callbacks
    inFlight,       \* hands.send() calls not yet settled
    delivered,      \* the send in flight has called onResults
    cameraStarts,   \* calls of startCamera so far (history)
    retries,        \* whether initHands has deferred itself (history)
    mounted,        \* the component is mounted: videoRef.current is the video element
    tracks,         \* the tracks of the stream getUserMedia gave: none, live, stopped
    atCleanup,      \* sends, updates, status and handFactor when the cleanup ran (history)
    sends,          \* calls of hands.send so far (history)
    updates,        \* calls of onHandUpdate so far (history)
    lastResult,     \* the argument of the last onResults call (history)
    atSend,         \* status and handFactor when the last frame was submitted (history)
    vEvent,         \* the last VisionController step (history)
    (* A second run of the frame loop, beside the first *)
    twinPositions,  \* the second run's geometry position array
    twinAudio,      \* the second run's prop audioData
    twinHandFactor  \* the second run's prop handFactor

shapeVars == <<gArgs, gOut>>
bandVars  == <<fData, fOut>>
audioVars == <<analyser, audioElement, isPlaying, isMusicLoaded, audioData,
               initPending, audioFrames, contextState, called, raised>>
morphVars == <<count, currentShape, currentPositions, targetPositions,
               smoothedBass, uAudioLevel, popBass, frames, events, uHandFactor>>
visionVars == <<status, handFactor, scriptLoaded, mediaDevices, handsRef, initTimer,
                camera, scheduled, inFlight, delivered, cameraStarts, retries, mounted,
                tracks, atCleanup, sends, updates,
                lastResult, atSend, vEvent>>
twinVars == <<twinPositions, twinAudio, twinHandFactor>>
vars == <<shapeVars, bandVars, audioVars, morphVars, visionVars, twinVars>>

----------------------------------------------------------------------------
(* Numbers *)

\* One unit (1.0) in fixed point.
Scale == 10 * 100

\* NaN: the result of 0/0 and of arithmetic on undefined.
NaN == 0 - 999999999

Abs(a) == IF a < 0 THEN -a ELSE a

\* a / b for b > 0, rounded to the nearest integer (halves away from zero).
RoundDiv(a, b) ==
    IF a >= 0 THEN (2 * a + b) \div (2 * b) ELSE -((2 * (-a) + b) \div (2 * b))

\* a * b and a / b of two fixed-point numbers; x / 0 with x = 0 is NaN.
Mul(a, b) == IF a = NaN \/ b = NaN THEN NaN ELSE RoundDiv(a * b, Scale)

Div(a, b) ==
    IF a = NaN \/ b = NaN \/ b = 0 THEN NaN
    ELSE IF b > 0 THEN RoundDiv(a * Scale, b) ELSE -RoundDiv(a * Scale, -b)

RECURSIVE SqrtSearch(_, _, _)
SqrtSearch(n, lo, hi) ==
    IF lo >= hi THEN lo
    ELSE LET mid == (lo + hi + 1) \div 2
         IN  IF mid * mid <= n THEN SqrtSearch(n, mid, hi) ELSE SqrtSearch(n, lo, mid - 1)

\* floor(sqrt(n)) of an integer n >= 0.
ISqrt(n) == SqrtSearch(n, 0, 46340)

\* Math.sqrt of a fixed-point number.
Sqrt(a) == ISqrt(a * Scale)

\* Math.pow(a, 2), Math.pow(a, 3.0), Math.pow(a, 5) for |a| <= 1.
Pow2(a) == Mul(a, a)
Pow3(a) == IF a = NaN THEN NaN ELSE RoundDiv(a * a * a, Scale * Scale)
Pow5(a) == Mul(Pow2(Pow2(a)), a)
Pow10(a) == Pow2(Pow5(a))

RECURSIVE RootSearch(_, _, _)
RootSearch(x, lo, hi) ==
    IF lo >= hi THEN lo
    ELSE LET mid == (lo + hi) \div 2
         IN  IF Pow10(mid) >= x THEN RootSearch(x, lo, mid) ELSE RootSearch(x, mid + 1, hi)

\* Math.pow(x, 0.1) for x in [0, 1]: the least y with y^10 >= x.
Root10(x) == RootSearch(x, 0, Scale)

RECURSIVE ExpSum(_, _, _, _)
ExpSum(x, k, term, acc) ==
    IF k > 16 \/ term = 0 THEN acc
    ELSE LET next == RoundDiv(term * x, Scale * k)
         IN  ExpSum(x, k + 1, next, acc + next)

\* Math.exp(x) for |x| <= 3 (its power series).
Exp(x) == ExpSum(x, 1, Scale, Scale)

\* Math.cosh(x).
Cosh(x) == IF x = NaN THEN NaN ELSE RoundDiv(Exp(x) + Exp(-x), 2)

----------------------------------------------------------------------------
(* Angles.  An angle is kept as its sine and cosine, [s, c]; sines are    *)
(* read from a table of AngSteps angles per turn.                          *)

\* 1000 * sin(2 * PI * k / 24), k = 0..23.
SinTable ==
    <<0, 259, 500, 707, 866, 966, 1000, 966, 866, 707, 500, 259,
      0, -259, -500, -707, -866, -966, -1000, -966, -866, -707, -500, -259>>

AngSteps == Len(SinTable)

AngIndex(k) == [s |-> SinTable[(k % AngSteps) + 1],
                c |-> SinTable[((k + AngSteps \div 4) % AngSteps) + 1]]

\* The angle of num/den turns (2 * PI * num / den), den > 0.
AngTurns(num, den) ==
    AngIndex(IF num >= 0 THEN RoundDiv(num * AngSteps, den)
             ELSE AngSteps * (1 + (-num) \div den) - RoundDiv((-num) * AngSteps, den))

\* 2 * PI in fixed point.
TwoPi == 6283

\* The angle of x radians.
AngRad(x) == AngTurns(x, TwoPi)

\* Math.acos(c): the angle in [0, PI] whose cosine is c.
AngAcos(c) == [s |-> ISqrt(Scale * Scale - c * c), c |-> c]

----------------------------------------------------------------------------
(* THREE.Vector3 *)

Vec(x, y, z) == <<x, y, z>>
NaNVec == <<NaN, NaN, NaN>>
IsFinite(a) == a # NaN
VecFinite(v) == IsFinite(v[1]) /\ IsFinite(v[2]) /\ IsFinite(v[3])

VecScale(v, k) == Vec(Mul(v[1], k), Mul(v[2], k), Mul(v[3], k))

\* Vector3.length()
VecLength(v) == ISqrt(v[1] * v[1] + v[2] * v[2] + v[3] * v[3])

\* Vector3.normalize(): divideScalar(length() || 1)
NormalizeUnguarded(v) ==
    LET len == VecLength(v)
    IN  Vec(Div(v[1], len), Div(v[2], len), Div(v[3], len))

Normalize(v) ==
    LET len == VecLength(v)
        d   == IF len = 0 THEN Scale ELSE len
    IN  Vec(Div(v[1], d), Div(v[2], d), Div(v[3], d))

\* Vector3.setFromSphericalCoords(radius, phi, theta)
SetFromSphericalCoords(r, phi, theta) ==
    LET sinPhiRadius == Mul(phi.s, r)
    IN  Vec(Mul(sinPhiRadius, theta.s), Mul(phi.c, r), Mul(sinPhiRadius, theta.c))

\* Vector3.applyAxisAngle((1,0,0), a): a rotation about the x axis.
ApplyAxisAngleX(v, a) ==
    Vec(v[1], Mul(v[2], a.c) - Mul(v[3], a.s), Mul(v[2], a.s) + Mul(v[3], a.c))

----------------------------------------------------------------------------
(* generateShapePositions (src/services/audioService.ts)                   *)

NEBULA == "Nebula"
HEART == "Heart"
FLOWER == "Flower"
SATURN == "Saturn"
CAKE == "Birthday Cake"
FIREWORKS == "Fireworks"
SPIRAL == "Archimedean Spiral"
LEMNISCATE == "Bernoulli Lemniscate"
KOCH == "Koch Snowflake"
ASTROID == "Astroid"
BUTTERFLY == "Butterfly Curve"
CATENOID == "Catenoid"
ROSE == "Rose Curve"

\* enum ShapeType
ShapeType == {NEBULA, HEART, FLOWER, SATURN, CAKE, FIREWORKS, SPIRAL,
              LEMNISCATE, KOCH, ASTROID, BUTTERFLY, CATENOID, ROSE}

\* The k-th Math.random() of one loop iteration (after the three draws of
\* the unused fallback x, y, z): the stream d repeats.
Rnd(d, k) == d[((k - 1) % Len(d)) + 1]

\* An angle of Math.random() * Math.PI * 2.
RndAngle(d, k) == AngTurns(Rnd(d, k), Scale)

\* The four vertices of the tetrahedron.
TetraVertex(n) ==
    CASE n = 0 -> Vec(Scale, Scale, Scale)
      [] n = 1 -> Vec(-Scale, -Scale, Scale)
      [] n = 2 -> Vec(-Scale, Scale, -Scale)
      [] OTHER -> Vec(Scale, -Scale, -Scale)

RECURSIVE TetraIterate(_, _, _, _)
TetraIterate(current, d, k, depth) ==
    IF k > depth THEN current
    ELSE LET target == TetraVertex((Rnd(d, 3 + k) * 4) \div Scale)
             next == Vec(Mul(current[1] - target[1], 500) + target[1],
                         Mul(current[2] - target[2], 500) + target[2],
                         Mul(current[3] - target[3], 500) + target[3])
         IN  TetraIterate(next, d, k + 1, depth)

getTetrahedronPoint(depth, radius, d) ==
    LET dir == Normalize(Vec(Rnd(d, 1) - 500, Rnd(d, 2) - 500, Rnd(d, 3) - 500))
    IN  IF ~VecFinite(dir) THEN NaNVec
        ELSE VecScale(TetraIterate(VecScale(dir, radius), d, 1, depth), Mul(radius, 800))

NebulaPoint(radius, d) ==
    LET r == Mul(Rnd(d, 1), radius)
        v == SetFromSphericalCoords(r, AngAcos(2 * Rnd(d, 3) - Scale), RndAngle(d, 2))
        armOffset == AngRad(RoundDiv(r, 2)).s
        a == AngRad(armOffset)
    IN  Vec(Mul(v[1], a.c) - Mul(v[3], a.s), Mul(v[2], 300), Mul(v[1], a.s) + Mul(v[3], a.c))

HeartPoint(d) ==
    LET u == Rnd(d, 1)
        su == AngTurns(u, Scale).s
        hx == 16 * Pow3(su)
        hy == 13 * AngTurns(u, Scale).c - 5 * AngTurns(2 * u, Scale).c
              - 2 * AngTurns(3 * u, Scale).c - AngTurns(4 * u, Scale).c
        hz == Mul((Rnd(d, 3) - 500) * 6, su)
    IN  VecScale(Vec(hx, hy, hz), 400)

FlowerPoint(i, n, radius, d) ==
    LET u == AngTurns(10 * i, n)
        r == Mul(AngTurns(50 * i, n).c, radius)
        y_val == 5 * Pow2(Div(Abs(r), radius)) - 2 * Scale
    IN  IF ~IsFinite(Div(Abs(r), radius)) THEN Vec(Mul(r, u.c), NaN, Mul(r, u.s))
        ELSE Vec(Mul(r, u.c), y_val + (Rnd(d, 1) - 500), Mul(r, u.s))

SaturnPoint(i, n, radius, d) ==
    IF 10 * i < 4 * n
    THEN SetFromSphericalCoords(Mul(radius, 600), AngAcos(2 * Rnd(d, 2) - Scale), RndAngle(d, 1))
    ELSE LET angle == RndAngle(d, 1)
             dist == Mul(radius, 1200 + Mul(Rnd(d, 2), 800))
         IN  ApplyAxisAngleX(Vec(Mul(dist, angle.c), RoundDiv(Rnd(d, 3) - 500, 2),
                                 Mul(dist, angle.s)),
                             AngTurns(1, 12))

CakePoint(i, n, radius, d) ==
    LET bottomTierR == radius
        topTierR == Mul(radius, 650)
        bottomH == Mul(radius, 500)
        topH == Mul(radius, 400)
        candle == AngTurns((Rnd(d, 2) * 6) \div Scale, 6)
        cr == Mul(topTierR, 600)
        angle == RndAngle(d, 2)
        p == IF 100 * i > 98 * n
             THEN Vec(Mul(cr, candle.c) + RoundDiv(Rnd(d, 4) - 500, 10),
                      bottomH + topH + Mul(radius, 150) + Mul(Rnd(d, 3), 200),
                      Mul(cr, candle.s) + RoundDiv(Rnd(d, 5) - 500, 10))
             ELSE IF 100 * i > 95 * n
             THEN Vec(Mul(cr, candle.c),
                      bottomH + topH + Mul(Mul(Rnd(d, 3), radius), 150),
                      Mul(cr, candle.s))
             ELSE IF 100 * i > 90 * n
             THEN LET isTop == Rnd(d, 3) > 500
                      rBase == IF isTop THEN topTierR ELSE bottomTierR
                      yBase == IF isTop THEN bottomH + topH ELSE bottomH
                      rOffset == Mul(500, AngTurns(20 * Rnd(d, 2), Scale).s)
                      rr == rBase + Mul(rOffset, 200)
                  IN  Vec(Mul(rr, angle.c), yBase, Mul(rr, angle.s))
             ELSE IF 100 * i > 55 * n
             THEN LET r == Mul(Sqrt(Rnd(d, 3)), topTierR)
                  IN  Vec(Mul(r, angle.c), bottomH + Mul(Rnd(d, 4), topH), Mul(r, angle.s))
             ELSE LET r == Mul(Sqrt(Rnd(d, 3)), bottomTierR)
                  IN  Vec(Mul(r, angle.c), Mul(Rnd(d, 4), bottomH), Mul(r, angle.s))
    IN  Vec(p[1], p[2] - Mul(radius, 500), p[3])

FireworksPoint(radius, d) ==
    SetFromSphericalCoords(Mul(Mul(Root10(Rnd(d, 3)), radius), 1500),
                           AngAcos(2 * Rnd(d, 2) - Scale), RndAngle(d, 1))

SpiralPoint(i, n, radius, d) ==
    LET theta == AngTurns(4 * i, n)
        r == RoundDiv(i * Mul(radius, 1500), n)
        scatter == Mul(Rnd(d, 1) - 500, Mul(radius, 200))
    IN  Vec(Mul(r + scatter, theta.c), Mul(Mul(Rnd(d, 2) - 500, radius), 100),
            Mul(r + scatter, theta.s))

LemniscatePoint(i, n, radius, d) ==
    LET tVal == AngTurns(i, n)
        scale == Mul(radius, 1200)
        div == Scale + Pow2(tVal.s)
        bx == Div(Mul(scale, tVal.c), div)
        by == Div(Mul(Mul(scale, tVal.c), tVal.s), div)
        thickness == (Rnd(d, 1) - 500) * 2
    IN  IF ~IsFinite(bx) THEN NaNVec
        ELSE ApplyAxisAngleX(Vec(bx, by, thickness), AngTurns(1, 4))

AstroidPoint(radius, d) ==
    LET u == RndAngle(d, 1)
        v == AngTurns(Rnd(d, 2) - 500, 2 * Scale)
        r == Mul(radius, 1200)
    IN  Vec(Mul(Mul(r, Pow3(u.c)), Pow3(v.c)), Mul(r, Pow3(v.s)),
            Mul(Mul(r, Pow3(u.s)), Pow3(v.c)))

ButterflyPoint(i, n, radius, d) ==
    LET tVal == AngTurns(12 * i, n)
        term == Exp(tVal.c) - 2 * AngTurns(48 * i, n).c - Pow5(AngTurns(i, n).s)
        r == Mul(Mul(radius, 300), term)
    IN  Vec(Mul(r, tVal.s), Mul(r, tVal.c), Mul(Mul(Rnd(d, 1) - 500, Abs(r)), 500))

CatenoidPoint(i, n, radius, d) ==
    LET c == Mul(radius, 300)
        u == RndAngle(d, 1)
        v == RoundDiv((2 * i - n) * Mul(radius, 1500), 2 * n)
        r == Mul(c, Cosh(Div(v, c)))
    IN  Vec(Mul(r, u.c), v, Mul(r, u.s))

RosePoint(radius, d) ==
    LET theta == RndAngle(d, 1)
        phi == AngTurns(Rnd(d, 2), 2 * Scale)
        rBase == Mul(AngTurns(6 * Rnd(d, 1), Scale).s, AngTurns(6 * Rnd(d, 2), 2 * Scale).s)
        r == Mul(radius, 500 + RoundDiv(Abs(rBase), 2))
    IN  SetFromSphericalCoords(r, phi, theta)

\* A default case that keeps the point drawn in the cube before the switch.
DefaultPointInCube(radius, d) ==
    Vec(Mul((Rnd(d, 1) - 500) * 2, radius), Mul((Rnd(d, 2) - 500) * 2, radius),
        Mul((Rnd(d, 1) - 500) * 2, radius))

\* The default case of the switch: a shell of the given radius.
DefaultPoint(radius, d) ==
    SetFromSphericalCoords(radius, AngTurns(Rnd(d, 1), 2 * Scale), RndAngle(d, 2))

\* tempVec after the switch of loop iteration i.
ShapePoint(type, i, n, radius, d) ==
    CASE type = NEBULA -> NebulaPoint(radius, d)
      [] type = HEART -> HeartPoint(d)
      [] type = FLOWER -> FlowerPoint(i, n, radius, d)
      [] type = SATURN -> SaturnPoint(i, n, radius, d)
      [] type = CAKE -> CakePoint(i, n, radius, d)
      [] type = FIREWORKS -> FireworksPoint(radius, d)
      [] type = SPIRAL -> SpiralPoint(i, n, radius, d)
      [] type = LEMNISCATE -> LemniscatePoint(i, n, radius, d)
      [] type = KOCH -> getTetrahedronPoint(6, radius, d)
      [] type = ASTROID -> AstroidPoint(radius, d)
      [] type = BUTTERFLY -> ButterflyPoint(i, n, radius, d)
      [] type = CATENOID -> CatenoidPoint(i, n, radius, d)
      [] type = ROSE -> RosePoint(radius, d)
      [] OTHER -> DefaultPoint(radius, d)

\* new Float32Array(n): n zeros.
Float32Array(n) == [k \in 1..n |-> 0]

\* buf[j] = v of a typed array (0-based j): a write past the end is dropped.
Store(buf, j, v) == IF j + 1 \in DOMAIN buf THEN [buf EXCEPT ![j + 1] = v] ELSE buf

\* buf[j] of a typed array: undefined past the end, NaN once used in arithmetic.
Load(buf, j) == IF j + 1 \in DOMAIN buf THEN buf[j + 1] ELSE NaN

\* The loop over the particles: it stores particle i's tempVec at 3i, 3i + 1
\* and 3i + 2, and no iteration reads what another one stored.
FillPositions(positions, type, n, radius, d) ==
    [k \in DOMAIN positions |->
        LET i == (k - 1) \div 3
        IN  IF i < n THEN ShapePoint(type, i, n, radius, d)[((k - 1) % 3) + 1]
            ELSE positions[k]]

generateShapePositions(type, n, radius, d) ==
    FillPositions(Float32Array(n * 3), type, n, radius, d)

----------------------------------------------------------------------------
(* Inputs of the model *)

\* The values a Math.random() call returns.
RandSet == {0, 250, 500, 750, 999}

\* The length of a random stream: one loop iteration reads the stream
\* from its start, and the stream repeats.
StreamLen == 2

DrawStreams == [1..StreamLen -> RandSet]

\* Particle counts: the small ones, and one large enough to reach every
\* index threshold of the cake (i > 0.98 * count needs count > 50).
MaxSmallCount == 3
LargeCount == 51
Counts == (1..MaxSmallCount) \cup {LargeCount}

\* The default radius (radius: number = 10) and two others.
DefaultRadius == 10 * Scale
Radii == {1 * Scale, DefaultRadius, 20 * Scale}

\* A shape identifier outside enum ShapeType.
UnknownShape == "Cube"

----------------------------------------------------------------------------
(* Idle values of the variables a specification does not use *)

Silent == [bass |-> 0, mid |-> 0, treble |-> 0]

ShapeIdle == gArgs = [type |-> NEBULA, count |-> 1, radius |-> DefaultRadius,
                      draw |-> [k \in 1..StreamLen |-> 0]]
             /\ gOut = <<>>
BandIdle  == fData = <<>> /\ fOut = Silent
AudioIdle == /\ analyser = FALSE
             /\ audioElement = "null"
             /\ isPlaying = FALSE
             /\ isMusicLoaded = FALSE
             /\ audioData = Silent
             /\ initPending = FALSE
             /\ audioFrames = 0
             /\ contextState = "null"
             /\ called = {}
             /\ raised = FALSE
MorphIdle == /\ count = 0
             /\ currentShape = NEBULA
             /\ currentPositions = <<>>
             /\ targetPositions = <<>>
             /\ smoothedBass = 0
             /\ uAudioLevel = 0
             /\ popBass = 0
             /\ frames = 0
             /\ events = <<>>
             /\ uHandFactor = Scale

TwinIdle == /\ twinPositions = <<>>
            /\ twinAudio = Silent
            /\ twinHandFactor = Scale

\* No timer pending.
NoTimer == 0 - 1

\* The cleanup has not run.
NoCleanup == [sends |-> 0, updates |-> 0, status |-> "init", factor |-> Scale]

\* An onResults argument: whether multiHandLandmarks holds a hand, and its
\* landmarks 4, 8, 0 and 5 as <<x, y>>.
NoHand == [hand |-> FALSE, thumbTip |-> <<0, 0>>, indexTip |-> <<0, 0>>,
           wrist |-> <<0, 0>>, indexBase |-> <<0, 0>>]

VisionIdle == /\ status = "init"
              /\ handFactor = Scale
              /\ scriptLoaded = FALSE
              /\ mediaDevices = TRUE
              /\ handsRef = FALSE
              /\ initTimer = NoTimer
              /\ camera = "idle"
              /\ scheduled = 0
              /\ inFlight = 0
              /\ delivered = FALSE
              /\ cameraStarts = 0
              /\ retries = FALSE
              /\ mounted = TRUE
              /\ tracks = "none"
              /\ atCleanup = NoCleanup
              /\ sends = 0
              /\ updates = 0
              /\ lastResult = NoHand
              /\ atSend = [status |-> "init", factor |-> Scale]
              /\ vEvent = "mount"

----------------------------------------------------------------------------
(* SpecShape: one call of generateShapePositions(type, count, radius)      *)

InitShape ==
    /\ gArgs \in [type : ShapeType \cup {UnknownShape}, count : Counts,
                  radius : Radii, draw : DrawStreams]
    /\ gOut = <<>>
    /\ BandIdle /\ AudioIdle /\ MorphIdle /\ VisionIdle /\ TwinIdle

GenerateCall ==
    /\ gOut = <<>>
    /\ gOut' = generateShapePositions(gArgs.type, gArgs.count, gArgs.radius, gArgs.draw)
    /\ UNCHANGED <<gArgs, bandVars, audioVars, morphVars, visionVars, twinVars>>

NextShape == GenerateCall

SpecShape == InitShape /\ [][NextShape]_vars

\* Point i (0-based) of a position buffer.
PointOf(buf, i) == Vec(buf[3 * i + 1], buf[3 * i + 2], buf[3 * i + 3])

\* |p| <= bound for a finite point p.
WithinRadius(p, bound) == VecFinite(p) /\ VecLength(p) <= bound

\* C1 (as claimed): every point generateShapePositions returns, for every
\* shape, count > 0 and radius > 0, has magnitude at most 2.5 * radius.
C1_MagnitudeWithin25Radius ==
    gOut # <<>> =>
        \A i \in 0..(gArgs.count - 1) :
            WithinRadius(PointOf(gOut, i), Mul(2500, gArgs.radius))

\* C2: for each of the 13 shapes and every count > 0 the returned buffer
\* holds exactly 3 * count coordinates and every coordinate is finite.
C2_ExactlyCountFinitePoints ==
    (gOut # <<>> /\ gArgs.type \in ShapeType) =>
        /\ Len(gOut) = 3 * gArgs.count
        /\ \A k \in 1..Len(gOut) : IsFinite(gOut[k])

\* C2's case: a returned Koch buffer whose first direction vector was
\* (0, 0, 0), the one place where the generator divides by a length.
C2_Witness ==
    /\ gOut # <<>>
    /\ gArgs.type = KOCH
    /\ gArgs.count = LargeCount
    /\ \A k \in 1..StreamLen : gArgs.draw[k] = 500

----------------------------------------------------------------------------
(* AudioService.getFrequencyData (src/services/audioService.ts)            *)

\* analyser.fftSize = 512; frequencyBinCount is half of it.
FftSize == 512
frequencyBinCount == FftSize \div 2

\* a /= n for an integer n: 0 / 0 is NaN.
DivCount(a, n) == IF a = NaN \/ n = 0 THEN NaN ELSE RoundDiv(a, n)

\* dataArray[i] / 255.0
ByteLevel(m) == RoundDiv(m * Scale, 255)

\* The loop over the bins lo <= i < hi: what it adds to bass, mid and treble.
\* The range is summed by halves, which adds the same terms.
RECURSIVE BandSums(_, _, _, _, _)
BandSums(data, lo, hi, bassRange, midRange) ==
    IF lo >= hi THEN Silent
    ELSE IF hi = lo + 1
    THEN LET val == ByteLevel(data[lo + 1])
         IN  IF lo < bassRange THEN [Silent EXCEPT !.bass = val]
             ELSE IF lo < midRange THEN [Silent EXCEPT !.mid = val]
             ELSE [Silent EXCEPT !.treble = val]
    ELSE LET half == (lo + hi) \div 2
             l == BandSums(data, lo, half, bassRange, midRange)
             r == BandSums(data, half, hi, bassRange, midRange)
         IN  [bass |-> l.bass + r.bass, mid |-> l.mid + r.mid,
              treble |-> l.treble + r.treble]

\* val = dataArray[i], the division by 255.0 left out: the byte magnitudes
\* themselves are averaged.
getFrequencyDataUnscaled(data) ==
    LET bufferLength == Len(data)
        bassRange == bufferLength \div 10
        midRange == bufferLength \div 2
        raw == [k \in 1..bufferLength |-> data[k] * 255]
        acc == BandSums(raw, 0, bufferLength, bassRange, midRange)
    IN  [bass |-> DivCount(acc.bass, bassRange),
         mid |-> DivCount(acc.mid, midRange - bassRange),
         treble |-> DivCount(acc.treble, bufferLength - midRange)]

\* An off-by-one band test (i <= bassRange instead of i < bassRange).
getFrequencyDataInclusive(data) ==
    LET bufferLength == Len(data)
        bassRange == bufferLength \div 10
        midRange == bufferLength \div 2
        acc == BandSums(data, 0, bufferLength, bassRange + 1, midRange)
    IN  [bass |-> DivCount(acc.bass, bassRange),
         mid |-> DivCount(acc.mid, midRange - bassRange),
         treble |-> DivCount(acc.treble, bufferLength - midRange)]

\* getFrequencyData once the analyser has filled dataArray with data.
getFrequencyData(data) ==
    LET bufferLength == Len(data)
        bassRange == bufferLength \div 10
        midRange == bufferLength \div 2
        acc == BandSums(data, 0, bufferLength, bassRange, midRange)
    IN  [bass |-> DivCount(acc.bass, bassRange),
         mid |-> DivCount(acc.mid, midRange - bassRange),
         treble |-> DivCount(acc.treble, bufferLength - midRange)]

(* SpecBands: one call of getFrequencyData on a buffer the analyser filled *)

\* Buffer lengths: every length up to MaxBins, and the program's own.
MaxBins == 24
BinCounts == (1..MaxBins) \cup {frequencyBinCount}

\* A flat buffer, and a buffer that is 0 but for one bin.
FlatData(len, m) == [k \in 1..len |-> m]
SpikeData(len, j, m) == [k \in 1..len |-> IF k = j + 1 THEN m ELSE 0]

BandInputs ==
    {FlatData(len, m) : len \in BinCounts, m \in 0..255}
    \cup UNION {{SpikeData(len, j, 255) : j \in 0..(len - 1)} : len \in BinCounts}

InitBands ==
    /\ fData \in BandInputs
    /\ fOut = Silent
    /\ ShapeIdle /\ AudioIdle /\ MorphIdle /\ VisionIdle /\ TwinIdle

AnalyseCall ==
    /\ fOut' = getFrequencyData(fData)
    /\ fOut' # fOut
    /\ UNCHANGED <<fData, shapeVars, audioVars, morphVars, visionVars, twinVars>>

NextBands == AnalyseCall

SpecBands == InitBands /\ [][NextBands]_vars

IsFlat(data) == \A k \in 1..Len(data) : data[k] = data[1]

\* The call has returned (a buffer of zeros returns the initial value).
Analysed == fOut = getFrequencyData(fData)

RECURSIVE LevelSum(_, _, _)
LevelSum(data, lo, hi) ==
    IF lo >= hi THEN 0
    ELSE IF hi = lo + 1 THEN ByteLevel(data[hi])
    ELSE LevelSum(data, lo, (lo + hi) \div 2) + LevelSum(data, (lo + hi) \div 2, hi)

BandMean(data, lo, hi) == DivCount(LevelSum(data, lo, hi), IF hi > lo THEN hi - lo ELSE 0)

\* The least integer >= num / den.
Ceil(num, den) == (num + den - 1) \div den

\* C7 (as claimed, at the program's own buffer length of fftSize / 2 bins):
\* the bands are the bins of [0, 0.1 L), [0.1 L, 0.5 L) and [0.5 L, L), so
\* bin i is bass iff i < 0.1 L, i.e. iff i < ceil(L / 10), and each returned
\* value is the mean of value / 255 over its band.
C7_BandsByRealBounds ==
    (fOut # Silent /\ Len(fData) = frequencyBinCount) =>
        LET len == Len(fData)
        IN  /\ fOut.bass = BandMean(fData, 0, Ceil(len, 10))
            /\ fOut.mid = BandMean(fData, Ceil(len, 10), Ceil(len, 2))
            /\ fOut.treble = BandMean(fData, Ceil(len, 2), len)

\* C7 (amended): the bands are the bins of [0, floor(0.1 L)),
\* [floor(0.1 L), floor(0.5 L)) and [floor(0.5 L), L); each returned value is
\* the mean of value / 255 over its band, NaN for an empty band.
C7_BandsByFloorBounds ==
    fOut # Silent =>
        LET len == Len(fData)
        IN  /\ fOut.bass = BandMean(fData, 0, len \div 10)
            /\ fOut.mid = BandMean(fData, len \div 10, len \div 2)
            /\ fOut.treble = BandMean(fData, len \div 2, len)

\* C7's case: the program's 256-bin buffer with its only energy in bin 25,
\* the bin between floor(25.6) and 25.6: it is counted in mid.
C7_Witness ==
    /\ Len(fData) = frequencyBinCount
    /\ fData[26] = 255
    /\ ~IsFlat(fData)
    /\ fOut.bass = 0
    /\ fOut.mid > 0

----------------------------------------------------------------------------
(* The audio loop and the audio handlers of App.tsx                        *)

\* What the analyser writes into dataArray in one frame: anything while its
\* element plays or loads, zeros when the element feeds it no sound.
AnalyserData(element) ==
    IF element \in {"playing", "loading"}
    THEN {FlatData(frequencyBinCount, m) : m \in {0, 77, 255}}
         \cup {SpikeData(frequencyBinCount, j, 255) : j \in {0, 25, 200}}
    ELSE {FlatData(frequencyBinCount, 0)}

\* Frames of the audio loop a behaviour is followed for.
MaxAudioFrames == 5

\* AudioService.getFrequencyData(): zeros while nothing was ever loaded.
ServiceFrequencyData(loaded, data) == IF ~loaded THEN Silent ELSE getFrequencyData(data)

\* prev => ({bass: prev.bass * 0.9, ...})
Decay(prev) == [bass |-> Mul(prev.bass, 900), mid |-> Mul(prev.mid, 900),
                treble |-> Mul(prev.treble, 900)]

\* analyze(): the value it gives setAudioData.
analyze(playing, loaded, prev, data) ==
    IF playing THEN ServiceFrequencyData(loaded, data) ELSE Decay(prev)

\* The state of a context init has just created.
ContextStates == {"running", "suspended"}

\* AudioService.pause() and AudioService.play() on the element.
ElementPause(element) ==
    IF element \in {"playing", "loading"} THEN "paused" ELSE element
ElementPlay(element) ==
    IF element = "paused" THEN "playing" ELSE element

\* A method call on a receiver: on null it throws a TypeError.
PauseOn(element) == IF element = "null" THEN "TypeError" ELSE ElementPause(element)
PlayOn(element) == IF element = "null" THEN "TypeError" ELSE ElementPlay(element)
ResumeOn(context) == IF context = "null" THEN "TypeError" ELSE "running"

\* A stop() without its test of this.audioElement.
stopUnguarded(element) == PauseOn(element)

\* AudioService.stop(): the element after it (currentTime is not modelled).
stop(element) == IF element # "null" THEN PauseOn(element) ELSE element

\* AudioService.pause(): the element after it.
pause(element) == IF element # "null" THEN PauseOn(element) ELSE element

\* AudioService.play(): the element and the context after it.
play(element, context) ==
    IF element # "null" /\ context # "null"
    THEN [element |-> PlayOn(element),
          context |-> IF context = "suspended" THEN ResumeOn(context) ELSE context]
    ELSE [element |-> element, context |-> context]

\* AudioService.resume(): the context after it (null?.state is undefined).
resume(context) == IF context = "suspended" THEN ResumeOn(context) ELSE context

InitAudio ==
    /\ analyser = FALSE
    /\ audioElement = "null"
    /\ isPlaying = FALSE
    /\ isMusicLoaded = FALSE
    /\ audioData = Silent
    /\ initPending = FALSE
    /\ audioFrames = 0
    /\ contextState = "null"
    /\ called = {}
    /\ raised = FALSE
    /\ ShapeIdle /\ BandIdle /\ MorphIdle /\ VisionIdle /\ TwinIdle

\* handleFileUpload up to its await: audioService.init(file) builds the
\* context, a new element and a new analyser and calls audioElement.play().
UploadStart ==
    /\ ~initPending
    /\ initPending' = TRUE
    /\ analyser' = TRUE
    /\ audioElement' = "loading"
    /\ UNCHANGED <<isPlaying, isMusicLoaded, audioData, audioFrames>>
    /\ contextState' \in ContextStates
    /\ UNCHANGED <<called, raised>>
    /\ UNCHANGED <<shapeVars, bandVars, morphVars, visionVars, twinVars>>

\* play() resolved: setIsPlaying(true), setIsMusicLoaded(true); when
\* isPlaying changed, the audio-loop effect restarts and calls analyze().
UploadResolved ==
    /\ initPending
    /\ audioElement = "loading"
    /\ initPending' = FALSE
    /\ audioElement' = "playing"
    /\ isPlaying' = TRUE
    /\ isMusicLoaded' = TRUE
    /\ IF isPlaying
       THEN UNCHANGED <<audioData, audioFrames>>
       ELSE /\ \E data \in AnalyserData("playing") :
                   audioData' = analyze(TRUE, analyser, audioData, data)
            /\ audioFrames' = audioFrames + 1
    /\ UNCHANGED analyser
    /\ UNCHANGED <<contextState, called, raised>>
    /\ UNCHANGED <<shapeVars, bandVars, morphVars, visionVars, twinVars>>

\* play() rejected (the file cannot be played, or the element was paused
\* meanwhile): init rejects and handleFileUpload ends at its await.
UploadRejected ==
    /\ initPending
    /\ initPending' = FALSE
    /\ audioElement' = (IF audioElement = "loading" THEN "failed" ELSE audioElement)
    /\ UNCHANGED <<analyser, isPlaying, isMusicLoaded, audioData, audioFrames>>
    /\ UNCHANGED <<contextState, called, raised>>
    /\ UNCHANGED <<shapeVars, bandVars, morphVars, visionVars, twinVars>>

\* handlePlayPause (its button is rendered once isMusicLoaded), and the
\* restart of the audio-loop effect, which calls analyze().
PlayPause ==
    /\ isMusicLoaded
    /\ isPlaying' = ~isPlaying
    /\ audioElement' = (IF isPlaying THEN pause(audioElement)
                        ELSE play(audioElement, contextState).element)
    /\ contextState' = (IF isPlaying THEN contextState
                        ELSE play(audioElement, contextState).context)
    /\ \E data \in AnalyserData(audioElement') :
           audioData' = analyze(~isPlaying, analyser, audioData, data)
    /\ audioFrames' = audioFrames + 1
    /\ UNCHANGED <<analyser, isMusicLoaded, initPending>>
    /\ UNCHANGED <<called, raised>>
    /\ UNCHANGED <<shapeVars, bandVars, morphVars, visionVars, twinVars>>

\* The requestAnimationFrame callback of the audio loop.
AnalyzeFrame ==
    /\ \E data \in AnalyserData(audioElement) :
           audioData' = analyze(isPlaying, analyser, audioData, data)
    /\ audioFrames' = audioFrames + 1
    /\ UNCHANGED <<analyser, audioElement, isPlaying, isMusicLoaded, initPending>>
    /\ UNCHANGED <<contextState, called, raised>>
    /\ UNCHANGED <<shapeVars, bandVars, morphVars, visionVars, twinVars>>

NextAudio ==
    \/ UploadStart
    \/ UploadRejected
    \/ audioFrames < MaxAudioFrames /\ UploadResolved
    \/ audioFrames < MaxAudioFrames /\ PlayPause
    \/ audioFrames < MaxAudioFrames /\ AnalyzeFrame

SpecAudio == InitAudio /\ [][NextAudio]_vars

InUnit(a) == IsFinite(a) /\ 0 <= a /\ a <= Scale

\* C8: in every reachable state bass, mid and treble lie in [0, 1] and are
\* not NaN, whatever the uploads, play / pause clicks and loop frames.
C8_BandsInUnitInterval ==
    InUnit(audioData.bass) /\ InUnit(audioData.mid) /\ InUnit(audioData.treble)

\* C8's case: playing, and the analysis of a full-scale buffer has put all
\* three bands at the upper bound.
C8_Witness ==
    /\ isPlaying
    /\ audioFrames > 0
    /\ audioData = [bass |-> Scale, mid |-> Scale, treble |-> Scale]

\* No audio source is active: nothing loaded, playback paused, or the loaded
\* file failed to play.
NoSourceActive(element) == element \in {"null", "paused", "failed"}

\* C9: a loop frame that runs while no audio source is active multiplies
\* each band by 0.9, and never turns a non-zero band into 0.
C9_DecayWhenNoSource ==
    [][(audioFrames' # audioFrames /\ NoSourceActive(audioElement')) =>
          /\ audioData' = Decay(audioData)
          /\ audioData.bass # 0 => audioData'.bass # 0
          /\ audioData.mid # 0 => audioData'.mid # 0
          /\ audioData.treble # 0 => audioData'.treble # 0]_vars

----------------------------------------------------------------------------
(* ParticleSystem (src/components/ParticleSystem.tsx)                       *)

\* const morphSpeed = 0.03 + (audioData.treble * 0.05)
\* A morph speed taken from the bass.
MorphSpeedBass(audio) == 30 + Mul(audio.bass, 50)

\* A morph three times slower.
MorphSpeedSlow(audio) == 10 + Mul(audio.treble, 50)

MorphSpeed(audio) == 30 + Mul(audio.treble, 50)

\* An interpolation step that goes past the target.
LerpOvershoot(c, t, morphSpeed) ==
    IF c = NaN \/ t = NaN THEN NaN ELSE c + RoundDiv((t - c) * (Scale + morphSpeed), Scale)

\* c += (t - c) * morphSpeed, stored back into the Float32Array.
Lerp(c, t, morphSpeed) ==
    IF c = NaN \/ t = NaN THEN NaN ELSE c + RoundDiv((t - c) * morphSpeed, Scale)

\* The morph loop from particle i on.
RECURSIVE MorphLoop(_, _, _, _, _)
MorphLoop(positions, target, i, n, morphSpeed) ==
    IF i >= n THEN positions
    ELSE LET ix == i * 3
             iy == i * 3 + 1
             iz == i * 3 + 2
             px == Store(positions, ix, Lerp(Load(positions, ix), Load(target, ix), morphSpeed))
             py == Store(px, iy, Lerp(Load(px, iy), Load(target, iy), morphSpeed))
             pz == Store(py, iz, Lerp(Load(py, iz), Load(target, iz), morphSpeed))
         IN  MorphLoop(pz, target, i + 1, n, morphSpeed)

\* A pop signal without the noise gate.
PopSignalUngated(bass) == Pow3(bass)

\* if (rawBass < 0.2) rawBass = 0; popBass = Math.pow(rawBass, 3.0)
PopSignal(bass) == LET rawBass == IF bass < 200 THEN 0 ELSE bass IN Pow3(rawBass)

\* A smoothing step of one half instead of 0.3.
SmoothHalf(smoothed, pop) == smoothed + Mul(pop - smoothed, 500)

\* smoothedBassRef.current += (popBass - smoothedBassRef.current) * 0.3
Smooth(smoothed, pop) == smoothed + Mul(pop - smoothed, 300)

(* SpecMorph: the mounted component under prop changes and frames *)

\* Random streams, particle counts, shapes and audio levels of the props.
MorphDraws == {<<250, 750>>, <<500, 0>>}
MorphCounts == {1, 2}
MorphShapes == {NEBULA, HEART, KOCH}
MorphAudio ==
    {[bass |-> 150, mid |-> 0, treble |-> 0],
     [bass |-> Scale, mid |-> Scale, treble |-> Scale]}

\* Operations a behaviour is followed for.
MaxEvents == 4

\* After the mount: both useState initialisers and the first run of the effect.
InitMorph ==
    /\ count \in MorphCounts
    /\ currentShape = NEBULA
    /\ \E d \in MorphDraws :
           currentPositions = generateShapePositions(NEBULA, count, DefaultRadius, d)
    /\ \E d \in MorphDraws :
           targetPositions = generateShapePositions(currentShape, count, DefaultRadius, d)
    /\ smoothedBass = 0
    /\ uAudioLevel = 0
    /\ popBass = 0
    /\ frames = 0
    /\ events = <<>>
    /\ uHandFactor = Scale
    /\ ShapeIdle /\ BandIdle /\ AudioIdle /\ VisionIdle /\ TwinIdle

\* A shape change that also moves the particles onto the new target.
SelectShapeSnap(shape, d) ==
    /\ shape # currentShape
    /\ currentShape' = shape
    /\ targetPositions' = generateShapePositions(shape, count, DefaultRadius, d)
    /\ currentPositions' = targetPositions'
    /\ events' = Append(events, "shape")
    /\ UNCHANGED <<count, smoothedBass, uAudioLevel, uHandFactor, popBass, frames>>
    /\ UNCHANGED <<shapeVars, bandVars, audioVars, visionVars, twinVars>>

\* setCurrentShape(shape) in App, then the effect on [currentShape, count].
SelectShape(shape, d) ==
    /\ shape # currentShape
    /\ currentShape' = shape
    /\ targetPositions' = generateShapePositions(shape, count, DefaultRadius, d)
    /\ events' = Append(events, "shape")
    /\ UNCHANGED <<count, currentPositions, smoothedBass, uAudioLevel, uHandFactor, popBass, frames>>
    /\ UNCHANGED <<shapeVars, bandVars, audioVars, visionVars, twinVars>>

\* A new count prop, then the effect on [currentShape, count].
SetCount(n, d) ==
    /\ n # count
    /\ count' = n
    /\ targetPositions' = generateShapePositions(currentShape, n, DefaultRadius, d)
    /\ events' = Append(events, "count")
    /\ UNCHANGED <<currentShape, currentPositions, smoothedBass, uAudioLevel, uHandFactor, popBass, frames>>
    /\ UNCHANGED <<shapeVars, bandVars, audioVars, visionVars, twinVars>>

\* A new audioData prop.
SetAudio(audio) ==
    /\ audio # audioData
    /\ audioData' = audio
    /\ UNCHANGED <<analyser, audioElement, isPlaying, isMusicLoaded, initPending, audioFrames,
                   contextState, called, raised>>
    /\ UNCHANGED <<shapeVars, bandVars, morphVars, visionVars, twinVars>>

\* The useFrame callback.
useFrame ==
    /\ currentPositions' =
           MorphLoop(currentPositions, targetPositions, 0, count, MorphSpeed(audioData))
    /\ popBass' = PopSignal(audioData.bass)
    /\ smoothedBass' = Smooth(smoothedBass, popBass')
    /\ uAudioLevel' = smoothedBass'
    /\ uHandFactor' = handFactor
    /\ frames' = frames + 1
    /\ events' = Append(events, "frame")
    /\ UNCHANGED <<count, currentShape, targetPositions>>

\* The frame callback of the one mounted ParticleSystem.
UseFrame ==
    /\ useFrame
    /\ UNCHANGED <<shapeVars, bandVars, audioVars, visionVars, twinVars>>

NextMorph ==
    \/ \E audio \in MorphAudio : SetAudio(audio)
    \/ Len(events) < MaxEvents /\ \E shape \in MorphShapes, d \in MorphDraws : SelectShape(shape, d)
    \/ Len(events) < MaxEvents /\ \E n \in MorphCounts, d \in MorphDraws : SetCount(n, d)
    \/ Len(events) < MaxEvents /\ UseFrame

SpecMorph == InitMorph /\ [][NextMorph]_vars

\* The buffers generateShapePositions can return for a shape and a count.
Generated(shape, n) ==
    {generateShapePositions(shape, n, DefaultRadius, d) : d \in MorphDraws}

\* C4: a shape change replaces the target by a generated buffer of the new
\* shape and modifies no current position; a frame moves every current
\* position by the interpolation step from where it was toward the target
\* of that moment, and lands on the target only where it already was.
C4_ShapeChangeReplacesOnlyTarget ==
    [][/\ currentShape' # currentShape =>
             /\ currentPositions' = currentPositions
             /\ targetPositions' \in Generated(currentShape', count)
       /\ frames' # frames =>
             \A k \in 1..Len(currentPositions) :
                 k <= Len(targetPositions) =>
                     /\ currentPositions'[k] =
                            Lerp(currentPositions[k], targetPositions[k], MorphSpeed(audioData))
                     /\ currentPositions[k] # targetPositions[k]
                            => currentPositions'[k] # targetPositions[k]]_vars

\* C4's case: a shape change, a frame, a second shape change while the
\* first morph is unfinished, and a frame toward the second target.
C4_Witness ==
    /\ events = <<"shape", "frame", "shape", "frame">>
    /\ currentShape = KOCH
    /\ currentPositions # targetPositions

\* C5: the current and the target buffer have the same length, 3 * count.
C5_SameLength ==
    /\ Len(currentPositions) = Len(targetPositions)
    /\ Len(currentPositions) = 3 * count

\* C10: a frame's pop signal is 0 when bass < 0.2 and bass^3 otherwise (0
\* for bass = 0.15, 1.0 for bass = 1.0), and the smoothed level moves by
\* (pop - smoothed) * 0.3, so one frame from 0 gives 0.3 * pop.
C10_PopGateAndSmoothing ==
    [][frames' # frames =>
          /\ popBass' = (IF audioData.bass < 200 THEN 0
                         ELSE RoundDiv(audioData.bass * audioData.bass * audioData.bass,
                                       Scale * Scale))
          /\ audioData.bass = 150 => popBass' = 0
          /\ audioData.bass = Scale => popBass' = Scale
          /\ smoothedBass' = smoothedBass + RoundDiv((popBass' - smoothedBass) * 3, 10)
          /\ smoothedBass = 0 => smoothedBass' = RoundDiv(3 * popBass', 10)
          /\ uAudioLevel' = smoothedBass']_vars

\* C10's case: one frame from smoothed = 0 at bass = 1.0.
C10_Witness ==
    /\ events = <<"frame">>
    /\ audioData.bass = Scale
    /\ popBass = Scale
    /\ smoothedBass = 300

(* SpecConverge: frames only, with the target and the audio level fixed *)

\* The shapes morphed to, and the treble levels that fix morphSpeed.
ConvergeShapes == {HEART, SATURN}
ConvergeTreble == {0, 500, Scale}

\* The audio levels held over a run: silence at each treble level, and a
\* bass of 0.9 with no treble.
ConvergeAudio ==
    {[bass |-> 0, mid |-> 0, treble |-> treble] : treble \in ConvergeTreble}
    \cup {[bass |-> 900, mid |-> 0, treble |-> 0]}

\* Frames a morph is followed for.
MaxLerpFrames == 300

\* The draws of the two initial buffers: those of the morphs, and one that
\* puts the nebula point at the rim of the radius.
ConvergeDraws == MorphDraws \cup {<<999, 500>>}

InitConverge ==
    /\ count = 1
    /\ currentShape \in ConvergeShapes
    /\ \E d \in ConvergeDraws :
           currentPositions = generateShapePositions(NEBULA, count, DefaultRadius, d)
    /\ \E d \in ConvergeDraws :
           targetPositions = generateShapePositions(currentShape, count, DefaultRadius, d)
    /\ smoothedBass = 0
    /\ uAudioLevel = 0
    /\ popBass = 0
    /\ frames = 0
    /\ events = <<>>
    /\ uHandFactor = Scale
    /\ analyser = FALSE
    /\ audioElement = "null"
    /\ isPlaying = FALSE
    /\ isMusicLoaded = FALSE
    /\ audioData \in ConvergeAudio
    /\ initPending = FALSE
    /\ audioFrames = 0
    /\ contextState = "null"
    /\ called = {}
    /\ raised = FALSE
    /\ ShapeIdle /\ BandIdle /\ VisionIdle /\ TwinIdle

NextConverge == frames < MaxLerpFrames /\ UseFrame

\* requestAnimationFrame keeps calling the frame callback.
SpecConverge == InitConverge /\ [][NextConverge]_vars /\ WF_vars(NextConverge)

Sgn(a) == IF a > 0 THEN 1 ELSE IF a < 0 THEN -1 ELSE 0

Axes == 1..Len(targetPositions)

\* target - current on axis k, now and after the step.
Gap(k) == targetPositions[k] - currentPositions[k]
GapAfter(k) == targetPositions[k] - currentPositions'[k]

\* C3 (as claimed): every step strictly decreases |current - target| on
\* each axis where it is non-zero and never changes the sign of
\* (target - current), and the distance tends to 0: it ends up below the
\* spacing of the stored values.
C3_StrictDecreaseToZero ==
    /\ [][frames' # frames =>
             \A k \in Axes :
                 Gap(k) # 0 => /\ Abs(GapAfter(k)) < Abs(Gap(k))
                               /\ Sgn(GapAfter(k)) \in {0, Sgn(Gap(k))}]_vars
    /\ <>[](\A k \in Axes : Abs(Gap(k)) < 1)

\* C3 (amended): no step increases |current - target| or changes the sign
\* of (target - current); a step strictly decreases the distance on an axis
\* whenever (target - current) * morphSpeed exceeds half the spacing of the
\* stored values; and the distance ends up no larger than that spacing
\* divided by 2 * morphSpeed, where it stays.
C3_NoOvershootStallsNearTarget ==
    /\ [][frames' # frames =>
             \A k \in Axes :
                 /\ Abs(GapAfter(k)) <= Abs(Gap(k))
                 /\ Sgn(GapAfter(k)) = Sgn(Gap(k))
                 /\ 2 * Abs(Gap(k)) * MorphSpeed(audioData) > Scale
                        => Abs(GapAfter(k)) < Abs(Gap(k))]_vars
    /\ <>[](\A k \in Axes : 2 * Abs(Gap(k)) * MorphSpeed(audioData) <= Scale)

\* C3's case: after frames of morphing toward a fixed target, every axis
\* has stopped moving and one of them is still away from the target.
C3_Witness ==
    /\ frames > 1
    /\ frames < MaxLerpFrames
    /\ currentPositions = MorphLoop(currentPositions, targetPositions, 0, count,
                                    MorphSpeed(audioData))
    /\ \E k \in Axes : Gap(k) # 0

\* 0.7^k in millionths.
RECURSIVE Geo(_)
Geo(k) == IF k = 0 THEN Scale * Scale ELSE RoundDiv(Geo(k - 1) * 7, 10)

\* level * (1 - 0.7^k)
ClosedForm(level, k) == RoundDiv(level * (Scale * Scale - Geo(k)), Scale * Scale)

\* The frames the closed form is stated for.
SmoothFrames == 10

\* C11 (as claimed): with bass held at 0.9 from smoothed = 0, the smoothed
\* level after frame k is 0.9 * (1 - 0.7^k), for k up to 10.
C11_SmoothedTowardBass ==
    (audioData.bass = 900 /\ frames \in 1..SmoothFrames) =>
        Abs(smoothedBass - ClosedForm(900, frames)) <= 2

\* C11 (amended): with bass held at 0.9 from smoothed = 0, the smoothed
\* level after frame k is 0.9^3 * (1 - 0.7^k) = 0.729 * (1 - 0.7^k), for k
\* up to 10, and uAudioLevel carries it.
C11_SmoothedTowardPop ==
    (audioData.bass = 900 /\ frames \in 1..SmoothFrames) =>
        /\ Abs(smoothedBass - ClosedForm(729, frames)) <= 2
        /\ uAudioLevel = smoothedBass

\* C11's case: frame 10 at bass 0.9, the smoothed level about 0.708.
C11_Witness ==
    /\ audioData.bass = 900
    /\ frames = SmoothFrames
    /\ Abs(smoothedBass - 708) <= 2

----------------------------------------------------------------------------
(* VisionController (src/components/VisionController.tsx)                   *)

\* setTimeout(initHands, 500)
RetryDelay == 500

\* The step in which time passes while a timer is pending.
TickMs == RetryDelay \div 2

\* Math.sqrt(dx * dx + dy * dy)
Hypot(dx, dy) == ISqrt(dx * dx + dy * dy)

\* The factor onResults computes from the landmarks of a hand.
GestureFactor(landmarks) ==
    LET dist == Hypot(landmarks.thumbTip[1] - landmarks.indexTip[1],
                      landmarks.thumbTip[2] - landmarks.indexTip[2])
        palmSize == Hypot(landmarks.wrist[1] - landmarks.indexBase[1],
                          landmarks.wrist[2] - landmarks.indexBase[2])
        rawFactor == Div(dist, IF palmSize = 0 THEN 100 ELSE palmSize)
        factor == rawFactor - 200
    IN  IF factor > Scale THEN Scale ELSE IF factor < 0 THEN 0 ELSE factor

\* setStatus(v): the status shown afterwards; React drops the update of an
\* unmounted component.
setStatus(v) == IF mounted THEN v ELSE status

\* An onResults that publishes nothing new when the hand is lost.
onResultsKeepLast(results, prev) ==
    IF results.hand
    THEN [status |-> "detected", factor |-> GestureFactor(results)]
    ELSE [status |-> "waiting", factor |-> prev]

\* onResults: the status it sets and the factor it gives onHandUpdate.
onResults(results, prev) ==
    IF results.hand
    THEN [status |-> "detected", factor |-> GestureFactor(results)]
    ELSE [status |-> "waiting", factor |-> Scale]

\* The status processVideo reads: the effect ran once, so its closure holds
\* the status of the first render.
ClosureStatus == "init"

\* A processVideo that requests the next frame before the send has settled.
ProcessVideoEager(ready, pending) ==
    IF mounted /\ handsRef /\ ClosureStatus # "error" /\ ready
    THEN /\ inFlight' = inFlight + 1
         /\ sends' = sends + 1
         /\ delivered' = FALSE
         /\ atSend' = [status |-> status, factor |-> handFactor]
         /\ scheduled' = pending + 1
         /\ vEvent' = "send"
    ELSE /\ scheduled' = pending + 1
         /\ vEvent' = "skip"
         /\ UNCHANGED <<inFlight, sends, delivered, atSend>>

\* processVideo up to its await (or, with nothing to send, to its end), with
\* pending other callbacks requested: the video is ready or not.
ProcessVideo(ready, pending) ==
    IF mounted /\ handsRef /\ ClosureStatus # "error" /\ ready
    THEN /\ inFlight' = inFlight + 1
         /\ sends' = sends + 1
         /\ delivered' = FALSE
         /\ atSend' = [status |-> status, factor |-> handFactor]
         /\ scheduled' = pending
         /\ vEvent' = "send"
    ELSE /\ scheduled' = pending + 1
         /\ vEvent' = "skip"
         /\ UNCHANGED <<inFlight, sends, delivered, atSend>>

Elsewhere == <<shapeVars, bandVars, audioVars, morphVars, twinVars>>

\* initHands: retry later, fail in the constructor, or set up the model and
\* call startCamera.
InitHands(throws) ==
    /\ initTimer = 0
    /\ IF ~scriptLoaded
       THEN /\ initTimer' = RetryDelay
            /\ vEvent' = "retry"
            /\ retries' = TRUE
            /\ UNCHANGED <<status, handsRef, camera, cameraStarts>>
       ELSE IF throws
       THEN /\ initTimer' = NoTimer
            /\ status' = setStatus("error")
            /\ vEvent' = "initFailed"
            /\ UNCHANGED <<handsRef, camera, cameraStarts, retries>>
       ELSE /\ initTimer' = NoTimer
            /\ handsRef' = TRUE
            /\ cameraStarts' = cameraStarts + 1
            /\ UNCHANGED retries
            /\ camera' = (IF mediaDevices THEN "requesting" ELSE "failed")
            /\ status' = (IF mediaDevices THEN status ELSE setStatus("error"))
            /\ vEvent' = "startCamera"
    /\ UNCHANGED <<handFactor, scriptLoaded, mediaDevices, scheduled, inFlight,
                   delivered, sends, updates, lastResult, atSend, mounted, tracks,
                   atCleanup>>
    /\ UNCHANGED Elsewhere

\* Time passes while the retry timer is pending.
Tick ==
    /\ initTimer > 0
    /\ initTimer' = initTimer - TickMs
    /\ UNCHANGED <<status, handFactor, scriptLoaded, mediaDevices, handsRef, camera,
                   scheduled, inFlight, delivered, cameraStarts, retries,
                   mounted, tracks, atCleanup, sends, updates,
                   lastResult, atSend, vEvent>>
    /\ UNCHANGED Elsewhere

\* The hand-model script finishes loading.
ScriptLoads ==
    /\ ~scriptLoaded
    /\ scriptLoaded' = TRUE
    /\ UNCHANGED <<status, handFactor, mediaDevices, handsRef, initTimer, camera,
                   scheduled, inFlight, delivered, cameraStarts, retries,
                   mounted, tracks, atCleanup, sends, updates,
                   lastResult, atSend, vEvent>>
    /\ UNCHANGED Elsewhere

\* A rejected getUserMedia that leaves the status as it was.
CameraRejectedSilently ==
    /\ camera = "requesting"
    /\ camera' = "failed"
    /\ vEvent' = "cameraFailed"
    /\ UNCHANGED <<status, handFactor, scriptLoaded, mediaDevices, handsRef, initTimer,
                   scheduled, inFlight, delivered, cameraStarts, retries,
                   mounted, tracks, atCleanup, sends, updates,
                   lastResult, atSend>>
    /\ UNCHANGED Elsewhere

\* A rejected getUserMedia that asks for the camera again.
CameraRejectedRetry ==
    /\ camera = "requesting"
    /\ camera' = "requesting"
    /\ cameraStarts' = cameraStarts + 1
    /\ UNCHANGED <<retries, mounted, tracks, atCleanup>>
    /\ status' = "error"
    /\ vEvent' = "cameraFailed"
    /\ UNCHANGED <<handFactor, scriptLoaded, mediaDevices, handsRef, initTimer,
                   scheduled, inFlight, delivered, sends, updates, lastResult, atSend>>
    /\ UNCHANGED Elsewhere

\* getUserMedia rejects: the catch of startCamera.
CameraRejected ==
    /\ camera = "requesting"
    /\ camera' = "failed"
    /\ status' = setStatus("error")
    /\ vEvent' = "cameraFailed"
    /\ UNCHANGED <<handFactor, scriptLoaded, mediaDevices, handsRef, initTimer,
                   scheduled, inFlight, delivered, cameraStarts, retries,
                   mounted, tracks, atCleanup, sends, updates,
                   lastResult, atSend>>
    /\ UNCHANGED Elsewhere

\* getUserMedia resolves: srcObject and onloadeddata are set.
CameraResolved ==
    /\ camera = "requesting"
    /\ camera' = (IF mounted THEN "streaming" ELSE "unattached")
    /\ tracks' = "live"
    /\ vEvent' = "stream"
    /\ UNCHANGED <<status, handFactor, scriptLoaded, mediaDevices, handsRef, initTimer,
                   scheduled, inFlight, delivered, cameraStarts, retries, mounted,
                   atCleanup, sends, updates, lastResult, atSend>>
    /\ UNCHANGED Elsewhere

\* onloadeddata: play() and the first call of processVideo.
LoadedData(ready) ==
    /\ camera = "streaming"
    /\ tracks = "live"
    /\ camera' = "playing"
    /\ ProcessVideo(ready, scheduled)
    /\ UNCHANGED <<status, handFactor, scriptLoaded, mediaDevices, handsRef, initTimer,
                   cameraStarts, retries, mounted, tracks, atCleanup, updates, lastResult>>
    /\ UNCHANGED Elsewhere

\* A requested animation frame runs processVideo.
AnimationFrame(ready) ==
    /\ scheduled > 0
    /\ ProcessVideo(ready, scheduled - 1)
    /\ UNCHANGED <<status, handFactor, scriptLoaded, mediaDevices, handsRef, initTimer,
                   camera, cameraStarts, retries, mounted, tracks, atCleanup, updates, lastResult>>
    /\ UNCHANGED Elsewhere

\* The hand model calls onResults for the frame in flight.
Results(results) ==
    /\ inFlight > 0
    /\ ~delivered
    /\ status' = setStatus(onResults(results, handFactor).status)
    /\ handFactor' = onResults(results, handFactor).factor
    /\ updates' = updates + 1
    /\ lastResult' = results
    /\ delivered' = TRUE
    /\ vEvent' = "results"
    /\ UNCHANGED <<scriptLoaded, mediaDevices, handsRef, initTimer, camera, scheduled,
                   inFlight, cameraStarts, retries, mounted, tracks, atCleanup, sends, atSend>>
    /\ UNCHANGED Elsewhere

\* A failed send that drops back to the open state.
SendRejectedReset ==
    /\ inFlight > 0
    /\ ~delivered
    /\ inFlight' = inFlight - 1
    /\ scheduled' = scheduled + 1
    /\ handFactor' = Scale
    /\ status' = "waiting"
    /\ vEvent' = "rejected"
    /\ UNCHANGED <<scriptLoaded, mediaDevices, handsRef, initTimer, camera,
                   delivered, cameraStarts, retries,
                   mounted, tracks, atCleanup, sends, updates, lastResult, atSend>>
    /\ UNCHANGED Elsewhere

\* send() rejects: the empty catch, then requestAnimationFrame(processVideo).
SendRejected ==
    /\ inFlight > 0
    /\ ~delivered
    /\ inFlight' = inFlight - 1
    /\ scheduled' = scheduled + 1
    /\ vEvent' = "rejected"
    /\ UNCHANGED <<status, handFactor, scriptLoaded, mediaDevices, handsRef, initTimer,
                   camera, delivered, cameraStarts, retries,
                   mounted, tracks, atCleanup, sends, updates, lastResult, atSend>>
    /\ UNCHANGED Elsewhere

\* send() resolves: requestAnimationFrame(processVideo).
SendResolved ==
    /\ inFlight > 0
    /\ inFlight' = inFlight - 1
    /\ scheduled' = scheduled + 1
    /\ delivered' = FALSE
    /\ vEvent' = "resolved"
    /\ UNCHANGED <<status, handFactor, scriptLoaded, mediaDevices, handsRef, initTimer,
                   camera, cameraStarts, retries,
                   mounted, tracks, atCleanup, sends, updates, lastResult, atSend>>
    /\ UNCHANGED Elsewhere

(* SpecVision: the mounted controller, its environment and the render loop *)

\* Landmarks of the hands the model reports.
HandSet ==
    {[hand |-> TRUE, thumbTip |-> <<tx, ty>>, indexTip |-> <<500, 500>>,
      wrist |-> <<wx, wy>>, indexBase |-> <<500, 600>>] :
        tx \in {500, 530, 900}, ty \in {500, 540}, wx \in {500, 550}, wy \in {600, 640, 800}}

\* Frames submitted, and render frames, a behaviour is followed for.
MaxSends == 3
MaxVisionFrames == 2

\* After the first render, the effect about to call initHands.
InitVision ==
    /\ status = "init"
    /\ handFactor = Scale
    /\ scriptLoaded \in BOOLEAN
    /\ mediaDevices \in BOOLEAN
    /\ handsRef = FALSE
    /\ initTimer = 0
    /\ camera = "idle"
    /\ scheduled = 0
    /\ inFlight = 0
    /\ delivered = FALSE
    /\ cameraStarts = 0
    /\ retries = FALSE
    /\ mounted = TRUE
    /\ tracks = "none"
    /\ atCleanup = NoCleanup
    /\ sends = 0
    /\ updates = 0
    /\ lastResult = NoHand
    /\ atSend = [status |-> "init", factor |-> Scale]
    /\ vEvent = "mount"
    /\ count = 1
    /\ currentShape = NEBULA
    /\ currentPositions = generateShapePositions(NEBULA, count, DefaultRadius, <<250, 750>>)
    /\ targetPositions = generateShapePositions(NEBULA, count, DefaultRadius, <<500, 0>>)
    /\ smoothedBass = 0
    /\ uAudioLevel = 0
    /\ popBass = 0
    /\ frames = 0
    /\ events = <<>>
    /\ uHandFactor = Scale
    /\ ShapeIdle /\ BandIdle /\ AudioIdle /\ TwinIdle

NextVision ==
    \/ \E throws \in BOOLEAN : InitHands(throws)
    \/ Tick
    \/ ScriptLoads
    \/ CameraRejected
    \/ CameraResolved
    \/ \E ready \in BOOLEAN : LoadedData(ready)
    \/ sends < MaxSends /\ \E ready \in BOOLEAN : AnimationFrame(ready)
    \/ \E results \in HandSet \cup {NoHand} : Results(results)
    \/ SendRejected
    \/ SendResolved
    \/ frames < MaxVisionFrames /\ UseFrame

\* Timers fire and time passes.
SpecVision ==
    /\ InitVision
    /\ [][NextVision]_vars
    /\ WF_vars(Tick)
    /\ WF_vars(\E throws \in BOOLEAN : InitHands(throws))

\* d and p of a result: thumb tip to index tip, wrist to index base.
PinchDistance(results) ==
    Hypot(results.thumbTip[1] - results.indexTip[1], results.thumbTip[2] - results.indexTip[2])
PalmDistance(results) ==
    Hypot(results.wrist[1] - results.indexBase[1], results.wrist[2] - results.indexBase[2])

Clamp01(a) == IF a > Scale THEN Scale ELSE IF a < 0 THEN 0 ELSE a

Max(a, b) == IF a >= b THEN a ELSE b

\* C12: after a result with a hand, the published factor is
\* clamp(d / max(p, 0.1) - 0.2, 0, 1), and 0 when d = 0.
C12_FactorWithPalmFloor ==
    (vEvent = "results" /\ lastResult.hand) =>
        /\ handFactor =
               Clamp01(Div(PinchDistance(lastResult), Max(PalmDistance(lastResult), 100)) - 200)
        /\ PinchDistance(lastResult) = 0 => handFactor = 0

\* C13: the factor is 1.0 before any result and after every result with no
\* hand (status then waiting); status is detected only after a result with
\* a hand; every published value lies in [0, 1]; and whenever status is not
\* detected the factor is 1.0.
C13_OpenUnlessDetected ==
    /\ InUnit(handFactor)
    /\ updates = 0 => handFactor = Scale /\ status # "detected"
    /\ (vEvent = "results" /\ ~lastResult.hand) => handFactor = Scale /\ status = "waiting"
    /\ status = "detected" => updates > 0 /\ lastResult.hand
    /\ status # "detected" => handFactor = Scale

\* C13's case: a hand was detected and published a factor below 1.0, and
\* the result of the next frame held no hand.
C13_Witness ==
    /\ vEvent = "results"
    /\ ~lastResult.hand
    /\ atSend.status = "detected"
    /\ atSend.factor < Scale
    /\ status = "waiting"
    /\ handFactor = Scale

\* C14: when getUserMedia is missing or rejects, or the constructor of the
\* hand model throws, status is error; from then on status stays error, no
\* update is published and the factor is 1.0; and the render frame can
\* still run and passes 1.0 on.
C14_ErrorIsPermanent ==
    /\ [](camera = "failed" => status = "error")
    /\ [](vEvent = "initFailed" => status = "error")
    /\ [](status = "error" => /\ handFactor = Scale
                             /\ uHandFactor = Scale
                             /\ updates = 0
                             /\ ENABLED UseFrame)
    /\ [][status = "error" => /\ status' = "error"
                              /\ updates' = updates
                              /\ handFactor' = handFactor]_vars

\* C14's case: getUserMedia was rejected, and a render frame ran afterwards.
C14_Witness ==
    /\ status = "error"
    /\ camera = "failed"
    /\ mediaDevices
    /\ events = <<"frame">>
    /\ vEvent = "cameraFailed"

\* C15: while the script is not loaded no camera is started and initHands
\* stays due or pending, each deferral being of the one fixed delay; once
\* the script is loaded initHands stops deferring itself, and when it has
\* completed the camera has been asked for exactly once; it is never asked
\* for more than once, and a failed acquisition stays failed.
C15_RetryScriptNotCamera ==
    /\ [](~scriptLoaded => cameraStarts = 0 /\ ~handsRef /\ initTimer >= 0)
    /\ [][initTimer' > initTimer => initTimer' = RetryDelay /\ ~scriptLoaded]_vars
    /\ [](initTimer \in {NoTimer, 0, TickMs, RetryDelay})
    /\ (~scriptLoaded /\ initTimer > 0) ~> (initTimer = 0)
    /\ scriptLoaded ~> (initTimer = NoTimer)
    /\ [](handsRef <=> cameraStarts = 1)
    /\ [](cameraStarts <= 1)
    /\ [][camera = "failed" => camera' = "failed" /\ cameraStarts' = cameraStarts]_vars

\* C15's case: initHands deferred itself while the script was missing, then
\* completed, and the one camera acquisition was rejected.
C15_Witness ==
    /\ retries
    /\ scriptLoaded
    /\ handsRef
    /\ cameraStarts = 1
    /\ camera = "failed"
    /\ mediaDevices

\* C16: at most one send is in flight, a next frame is requested only while
\* none is (one loop), and onHandUpdate has run at most once per send.
C16_OneSendInFlight ==
    /\ inFlight <= 1
    /\ scheduled + inFlight <= 1
    /\ updates <= sends
    /\ (inFlight = 0 /\ scheduled = 0) => camera # "playing"

\* C16's case: a second frame is in flight after the first one delivered a
\* result and settled.
C16_Witness ==
    /\ sends = 2
    /\ updates = 1
    /\ inFlight = 1
    /\ ~delivered
    /\ vEvent = "send"

\* C19: after a frame was dropped (the video was not ready, or send
\* rejected) status and factor are what they were, and exactly one next
\* frame is requested, with nothing in flight.
C19_DroppedFrameIgnored ==
    /\ [][vEvent' \in {"skip", "rejected"} =>
            /\ status' = status
            /\ handFactor' = handFactor
            /\ updates' = updates
            /\ scheduled' = 1
            /\ inFlight' = 0]_vars
    /\ [](vEvent = "rejected" => status = atSend.status /\ handFactor = atSend.factor)

\* C19's case: a hand had closed the factor below 1.0 and the send of the
\* next frame was rejected.
C19_Witness ==
    /\ vEvent = "rejected"
    /\ status = "detected"
    /\ handFactor < Scale
    /\ updates = 1
    /\ sends = 2
    /\ scheduled = 1

----------------------------------------------------------------------------
(* SpecService: the AudioService object, its methods called in any order   *)

Methods == {"stop", "pause", "play", "resume", "getFrequencyData"}

InitService ==
    /\ AudioIdle
    /\ ShapeIdle /\ BandIdle /\ MorphIdle /\ VisionIdle /\ TwinIdle

\* init(file): a new context, element and analyser, and audioElement.play().
ServiceInit(context) ==
    /\ ~initPending
    /\ initPending' = TRUE
    /\ analyser' = TRUE
    /\ audioElement' = "loading"
    /\ contextState' = context
    /\ called' = called \cup {"init"}
    /\ UNCHANGED <<isPlaying, isMusicLoaded, audioData, audioFrames, raised>>
    /\ UNCHANGED <<shapeVars, bandVars, morphVars, visionVars, twinVars>>

\* The play() promise of init settles: the file plays or cannot be played.
InitSettles(ok) ==
    /\ initPending
    /\ initPending' = FALSE
    /\ audioElement' = (IF audioElement # "loading" THEN audioElement
                        ELSE IF ok THEN "playing" ELSE "failed")
    /\ UNCHANGED <<analyser, isPlaying, isMusicLoaded, audioData, audioFrames,
                   contextState, called, raised>>
    /\ UNCHANGED <<shapeVars, bandVars, morphVars, visionVars, twinVars>>

\* One direct call of stop, pause, play, resume or getFrequencyData; audioData
\* holds what the last getFrequencyData returned.
ServiceCall(method) ==
    LET element == CASE method = "stop" -> stop(audioElement)
                     [] method = "pause" -> pause(audioElement)
                     [] method = "play" -> play(audioElement, contextState).element
                     [] OTHER -> audioElement
        context == CASE method = "play" -> play(audioElement, contextState).context
                     [] method = "resume" -> resume(contextState)
                     [] OTHER -> contextState
        throws == element = "TypeError" \/ context = "TypeError"
    IN  /\ raised' = (raised \/ throws)
        /\ audioElement' = (IF throws THEN audioElement ELSE element)
        /\ contextState' = (IF throws THEN contextState ELSE context)
        /\ IF method = "getFrequencyData"
           THEN \E data \in AnalyserData(audioElement) :
                    audioData' = ServiceFrequencyData(analyser, data)
           ELSE UNCHANGED audioData
        /\ called' = called \cup {method}
        /\ UNCHANGED <<analyser, isPlaying, isMusicLoaded, initPending, audioFrames>>
        /\ UNCHANGED <<shapeVars, bandVars, morphVars, visionVars, twinVars>>

NextService ==
    \/ \E context \in ContextStates : ServiceInit(context)
    \/ \E ok \in BOOLEAN : InitSettles(ok)
    \/ \E method \in Methods : ServiceCall(method)

SpecService == InitService /\ [][NextService]_vars

\* C18: as long as init has not been called, whatever was called of stop,
\* pause, play, resume and getFrequencyData, no call has thrown, the service
\* holds no element, no analyser and no context, and getFrequencyData has
\* returned zeros.
C18_NoOpBeforeLoad ==
    "init" \notin called =>
        /\ ~raised
        /\ audioElement = "null"
        /\ analyser = FALSE
        /\ contextState = "null"
        /\ audioData = Silent

\* C18's case: each of the five methods has been called and init has not.
C18_Witness ==
    /\ called = Methods
    /\ audioElement = "null"

----------------------------------------------------------------------------
(* The end-to-end morph toward the heart                                   *)

\* The sum over particles i..(n - 1) of |current_i - target_i|.
RECURSIVE DistanceSum(_, _, _, _)
DistanceSum(current, target, i, n) ==
    IF i >= n THEN 0
    ELSE LET c == PointOf(current, i)
             t == PointOf(target, i)
         IN  VecLength(Vec(c[1] - t[1], c[2] - t[2], c[3] - t[3]))
             + DistanceSum(current, target, i + 1, n)

MeanDistance(current, target, n) == RoundDiv(DistanceSum(current, target, 0, n), n)

\* The frames of the end-to-end run.
EndToEndFrames == 200

\* C20: with silent audio and the heart as the shape from the start, after
\* 200 frames the mean distance between the current and the target buffer
\* is below one hundredth of the radius 10.
C20_HeartWithinOnePercent ==
    (currentShape = HEART /\ audioData = Silent /\ frames = EndToEndFrames) =>
        MeanDistance(currentPositions, targetPositions, count) * 100 < DefaultRadius

\* C20's case: frame 200 of a silent morph toward the heart that began
\* with the nebula point at the rim, more than half the radius away.
C20_Witness ==
    /\ currentShape = HEART
    /\ audioData = Silent
    /\ frames = EndToEndFrames
    /\ MorphSpeed(audioData) = 30
    /\ LET start == generateShapePositions(NEBULA, count, DefaultRadius, <<999, 500>>)
       IN  \E k \in Axes : Abs(targetPositions[k] - start[k]) * 2 > DefaultRadius
    /\ currentPositions # targetPositions

----------------------------------------------------------------------------
(* SpecTwin: two runs of the frame loop side by side. They share the       *)
(* targets, particle 0 and each frame's treble; they differ in bass, mid,  *)
(* the gesture factor and the position of particle 1.                      *)

\* The vertex shader's gesture scale: 0.1 + 1.8 * smoothstep(0, 1, uHandFactor).
ShapeScale(h) ==
    LET t == IF h < 0 THEN 0 ELSE IF h > Scale THEN Scale ELSE h
        contraction == Mul(Mul(t, t), 3 * Scale - 2 * t)
    IN  100 + Mul(1800, contraction)

TwinShapes == {HEART, SATURN}
TwinLevels == {0, 900}
TwinFactors == {500, Scale}

\* Frames the two runs are followed for.
MaxTwinFrames == 3

\* A buffer with particle 0 of first and the other particles of rest.
WithParticle0(first, rest) == [k \in DOMAIN rest |-> IF k <= 3 THEN first[k] ELSE rest[k]]

InitTwin ==
    /\ count = 2
    /\ currentShape \in TwinShapes
    /\ \E d \in MorphDraws :
           /\ currentPositions = generateShapePositions(NEBULA, count, DefaultRadius, d)
           /\ \E e \in MorphDraws \ {d} :
                  twinPositions = WithParticle0(currentPositions,
                                      generateShapePositions(NEBULA, count, DefaultRadius, e))
    /\ targetPositions = generateShapePositions(currentShape, count, DefaultRadius, <<500, 0>>)
    /\ smoothedBass = 0
    /\ uAudioLevel = 0
    /\ popBass = 0
    /\ frames = 0
    /\ events = <<>>
    /\ uHandFactor = Scale
    /\ twinAudio = Silent
    /\ twinHandFactor = Scale
    /\ ShapeIdle /\ BandIdle /\ AudioIdle /\ VisionIdle

\* Between two frames each run gets its own audio levels and gesture
\* factor; the treble is the same in both.
TwinInputs ==
    /\ \E treble \in TwinLevels :
           /\ \E bass \in TwinLevels :
                  audioData' = [bass |-> bass, mid |-> bass, treble |-> treble]
           /\ \E bass \in TwinLevels :
                  twinAudio' = [bass |-> bass, mid |-> bass, treble |-> treble]
    /\ handFactor' \in TwinFactors
    /\ twinHandFactor' \in TwinFactors
    /\ UNCHANGED <<analyser, audioElement, isPlaying, isMusicLoaded, initPending,
                   audioFrames, contextState, called, raised>>
    /\ UNCHANGED <<status, scriptLoaded, mediaDevices, handsRef, initTimer, camera,
                   scheduled, inFlight, delivered, cameraStarts, retries,
                   mounted, tracks, atCleanup, sends, updates,
                   lastResult, atSend, vEvent>>
    /\ UNCHANGED <<shapeVars, bandVars, morphVars, twinPositions>>

\* One frame of both runs: each runs the morph loop on its own buffer with
\* its own audioData.
TwinFrame ==
    /\ useFrame
    /\ twinPositions' =
           MorphLoop(twinPositions, targetPositions, 0, count, MorphSpeed(twinAudio))
    /\ UNCHANGED <<twinAudio, twinHandFactor>>
    /\ UNCHANGED <<shapeVars, bandVars, audioVars, visionVars>>

NextTwin ==
    \/ frames < MaxTwinFrames /\ TwinInputs
    \/ frames < MaxTwinFrames /\ TwinFrame

SpecTwin == InitTwin /\ [][NextTwin]_vars

\* C21: after every frame the stored position of particle 0 is the same in
\* both runs, whatever their bass, mid and gesture factors and whatever
\* the position of the other particle; and each frame stores, on every axis
\* of either run, the value given by that axis' own current and target
\* value and the treble.
C21_StoredPositionIndependent ==
    /\ [](\A k \in 1..3 : twinPositions[k] = currentPositions[k])
    /\ [][frames' # frames =>
             \A k \in DOMAIN currentPositions :
                 /\ currentPositions'[k] =
                        Lerp(currentPositions[k], targetPositions[k], 30 + Mul(audioData.treble, 50))
                 /\ twinPositions'[k] =
                        Lerp(twinPositions[k], targetPositions[k], 30 + Mul(audioData.treble, 50))]_vars

\* C21's case: after the last frame, the runs differ in bass, in a gesture
\* factor that changes the displayed scale and in particle 1, and particle
\* 0 has moved and is not at its target yet.
C21_Witness ==
    /\ frames = MaxTwinFrames
    /\ audioData.bass # twinAudio.bass
    /\ audioData.treble > 0
    /\ ShapeScale(handFactor) # ShapeScale(twinHandFactor)
    /\ \E k \in 4..6 : twinPositions[k] # currentPositions[k]
    /\ \E k \in 1..3 : currentPositions[k] # targetPositions[k]

----------------------------------------------------------------------------
(* SpecLive: the audio loop of the App and the render frames of the        *)
(* ParticleSystem it feeds, interleaved                                    *)

\* Render frames and analyze() calls followed.
MaxLiveFrames == 1
MaxLiveAudio == 3

InitLive ==
    /\ analyser = FALSE
    /\ audioElement = "null"
    /\ isPlaying = FALSE
    /\ isMusicLoaded = FALSE
    /\ audioData = Silent
    /\ initPending = FALSE
    /\ audioFrames = 0
    /\ contextState = "null"
    /\ called = {}
    /\ raised = FALSE
    /\ count = 1
    /\ currentShape = HEART
    /\ currentPositions = generateShapePositions(NEBULA, count, DefaultRadius, <<250, 750>>)
    /\ targetPositions = generateShapePositions(currentShape, count, DefaultRadius, <<500, 0>>)
    /\ smoothedBass = 0
    /\ uAudioLevel = 0
    /\ popBass = 0
    /\ frames = 0
    /\ events = <<>>
    /\ uHandFactor = Scale
    /\ ShapeIdle /\ BandIdle /\ VisionIdle /\ TwinIdle

NextLive ==
    \/ audioFrames < MaxLiveAudio /\ NextAudio
    \/ frames < MaxLiveFrames /\ UseFrame

SpecLive == InitLive /\ [][NextLive]_vars

\* C22: every render frame moves every stored coordinate by the fraction
\* 0.03 + 0.05 * treble of its distance to the target, and with the treble
\* the audio loop has set (playing, paused and decaying, or never loaded)
\* that fraction lies in [0.03, 0.08].
C22_MorphSpeedInRange ==
    /\ [](/\ IsFinite(audioData.treble)
          /\ 30 <= MorphSpeed(audioData)
          /\ MorphSpeed(audioData) <= 80
          /\ 0 < MorphSpeed(audioData)
          /\ MorphSpeed(audioData) < Scale)
    /\ [][frames' # frames =>
             \A k \in DOMAIN currentPositions :
                 currentPositions'[k] =
                     currentPositions[k]
                     + RoundDiv((targetPositions[k] - currentPositions[k])
                                * (30 + RoundDiv(50 * audioData.treble, Scale)), Scale)]_vars

\* C22's case: a render frame has run, and the audio is paused with a
\* treble that has decayed from a level the analyser gave.
C22_Witness ==
    /\ frames > 0
    /\ isMusicLoaded
    /\ ~isPlaying
    /\ 0 < audioData.treble
    /\ audioData.treble < Scale
    /\ 30 < MorphSpeed(audioData)
    /\ currentPositions # generateShapePositions(NEBULA, count, DefaultRadius, <<250, 750>>)

----------------------------------------------------------------------------
(* SpecTeardown: the controller is unmounted at some point of its life     *)

\* The cleanup of the effect: cancelAnimationFrame of the last requested
\* frame, hands.close(), and, when videoRef.current still holds the element
\* with a stream (attached), the stop of its tracks. The retry timer is not
\* cleared. The effect has run initHands once before any cleanup.
Cleanup(attached) ==
    /\ mounted
    /\ vEvent # "mount"
    /\ mounted' = FALSE
    /\ scheduled' = 0
    /\ tracks' = (IF attached /\ tracks = "live" THEN "stopped" ELSE tracks)
    /\ atCleanup' = [sends |-> sends, updates |-> updates, status |-> status,
                     factor |-> handFactor]
    /\ vEvent' = "cleanup"
    /\ UNCHANGED <<status, handFactor, scriptLoaded, mediaDevices, handsRef, initTimer,
                   camera, inFlight, delivered, cameraStarts, retries, sends, updates,
                   lastResult, atSend>>
    /\ UNCHANGED Elsewhere

NextTeardown ==
    \/ \E throws \in BOOLEAN : InitHands(throws)
    \/ Tick
    \/ ScriptLoads
    \/ CameraRejected
    \/ CameraResolved
    \/ \E ready \in BOOLEAN : LoadedData(ready)
    \/ sends < MaxSends /\ \E ready \in BOOLEAN : AnimationFrame(ready)
    \/ \E results \in HandSet \cup {NoHand} : Results(results)
    \/ SendRejected
    \/ SendResolved
    \/ \E attached \in BOOLEAN : Cleanup(attached)

SpecTeardown == InitVision /\ [][NextTeardown]_vars

\* C23 (as claimed): once the cleanup has run, no retry timer and no
\* animation frame is scheduled, no frame has been submitted since, no
\* gesture update or status change has been published since, and the
\* tracks of every acquired stream are stopped.
C23_TeardownQuiesces ==
    ~mounted =>
        /\ initTimer = NoTimer
        /\ scheduled = 0
        /\ sends = atCleanup.sends
        /\ updates = atCleanup.updates
        /\ handFactor = atCleanup.factor
        /\ status = atCleanup.status
        /\ tracks # "live"

=============================================================================
